---- MODULE Spec2Model ----
(***************************************************************************)
(* Binary-operation dispatch of the processing layer                       *)
(* (cpp/arcticdb/processing/operation_dispatch_binary.hpp).                *)
(*                                                                         *)
(* dispatch_binary takes two already evaluated operands (VariantData) and  *)
(* an OperationType and routes them to one of four visitors; each visitor  *)
(* pattern-matches the operand kinds and runs a kernel.  Every function of *)
(* the header is a pure function of its operands, so the state machine     *)
(* holds one call: its operands, its operation and, once it has run, its   *)
(* outcome (a VariantData, or the error the call threw).                   *)
(***************************************************************************)
EXTENDS Integers, Sequences, FiniteSets, TLC

VARIABLES left, right, operation, result, pc, calls, string_pool

vars == <<left, right, operation, result, pc, calls, string_pool>>

(***************************************************************************)
(* Bounds of the model.                                                    *)
(*   MaxRows : the longest column (logical rows) drawn as an input.        *)
(*   IntBits : the width the 64-bit integer types are scaled down to, so   *)
(*             that wrap-around (static_cast between UINT64 and INT64)     *)
(*             happens inside the integers the checker can hold.           *)
(***************************************************************************)
MaxRows == 2

IntBits == 3

Pow2(n) == 2 ^ n

UMax == Pow2(IntBits) - 1

(***************************************************************************)
(* Element types (entity::DataType) and their predicates.                  *)
(***************************************************************************)
DataTypes == {"UINT64", "INT64", "FLOAT64", "BOOL8", "UTF_DYNAMIC64", "UTF_FIXED64", "EMPTYVAL"}

is_numeric_type(t) == t \in {"UINT64", "INT64", "FLOAT64"}

is_bool_type(t) == t = "BOOL8"

is_sequence_type(t) == t \in {"UTF_DYNAMIC64", "UTF_FIXED64"}

is_fixed_string_type(t) == t = "UTF_FIXED64"

is_empty_type(t) == t = "EMPTYVAL"

(***************************************************************************)
(* Operation catalogue (OperationType) and its four families.              *)
(***************************************************************************)
ArithmeticOps == {"ADD", "SUB", "MUL", "DIV"}

ComparisonOps == {"EQ", "NE", "LT", "LE", "GT", "GE"}

MembershipOps == {"ISIN", "ISNOTIN"}

BooleanOps == {"AND", "OR", "XOR"}

(***************************************************************************)
(* VariantData: the six operand/result shapes, and the two ways a call can *)
(* end without one: an exception (Error) or undefined behaviour.           *)
(*                                                                         *)
(* A column holds `rows` logical rows.  `vals` are its stored values in    *)
(* storage order and pos[k] is the logical row (0-based) of vals[k]; a     *)
(* dense column stores every row.  String columns store string-pool        *)
(* offsets.  A string is a sequence of character codes; 0 is the pad.      *)
(***************************************************************************)
EmptyResult == [kind |-> "EmptyResult"]

FullResult == [kind |-> "FullResult"]

BitSet(bits) == [kind |-> "BitSet", bits |-> bits]

ColumnWithStrings(type, rows, sparse, pos, vals) ==
    [kind |-> "Column", type |-> type, rows |-> rows, sparse |-> sparse, pos |-> pos, vals |-> vals]

Value(type, v, str) == [kind |-> "Value", type |-> type, v |-> v, str |-> str]

ValueSet(type, nums, strs) == [kind |-> "ValueSet", type |-> type, nums |-> nums, strs |-> strs]

Error(code, msg) == [kind |-> "Error", code |-> code, msg |-> msg]

Undefined == [kind |-> "Undefined"]

NoCall == [kind |-> "NoCall"]

row_count(col) == col.rows

is_sparse(col) == col.sparse

(***************************************************************************)
(* The shared string pool: offset -> string content.  Offsets 1 and 2 hold *)
(* variable-width strings, offsets 3 and 4 the same strings stored         *)
(* right-padded at fixed width 2.                                          *)
(***************************************************************************)
StringPool == << <<1>>, <<2>>, <<1, 0>>, <<2, 0>> >>

NotInPool == 0 - 1

NoWidth == 0 - 1

RECURSIVE StripTrailingNulls(_)
StripTrailingNulls(s) ==
    IF Len(s) > 0 /\ s[Len(s)] = 0 THEN StripTrailingNulls(SubSeq(s, 1, Len(s) - 1)) ELSE s

string_at_offset(col, offset, strip_fixed_width_trailing_nulls) ==
    IF strip_fixed_width_trailing_nulls THEN StripTrailingNulls(StringPool[offset]) ELSE StringPool[offset]

get_fixed_width_string_size(col) ==
    IF Len(col.vals) = 0 THEN NoWidth ELSE Len(StringPool[col.vals[1]])

\* nullopt (NoString) when the string does not fit the width, else the string
\* right-padded with the pad character to exactly `width` characters.
NoString == <<0 - 1>>

ascii_to_padded_utf32(str, width) ==
    IF Len(str) > width THEN NoString
    ELSE str \o [i \in 1..(width - Len(str)) |-> 0]

ColumnOffsets(col) == {col.vals[k] : k \in 1..Len(col.vals)}

get_offset_for_column(str, col) ==
    IF \E o \in ColumnOffsets(col) : StringPool[o] = str
    THEN CHOOSE o \in ColumnOffsets(col) : StringPool[o] = str
    ELSE NotInPool

get_offsets_for_column(strs, col) == {o \in ColumnOffsets(col) : StringPool[o] \in strs}

(***************************************************************************)
(* static_cast<T>(v) on the scaled-down integer types.                     *)
(***************************************************************************)
static_cast(t, v) ==
    CASE t = "UINT64" -> v % Pow2(IntBits)
      [] t = "INT64" -> ((v + Pow2(IntBits - 1)) % Pow2(IntBits)) - Pow2(IntBits - 1)
      [] t = "BOOL8" -> IF v # 0 THEN 1 ELSE 0
      [] OTHER -> v

(***************************************************************************)
(* Comparable<L, R>: the pair of types the two sides of a comparison are   *)
(* cast to.  An unsigned-64 against a signed integer keeps each side in    *)
(* its own type (the comparison functors then check the sign explicitly);  *)
(* every other pairing uses one common type for both sides.                *)
(***************************************************************************)
Comparable(L, R) ==
    CASE L = "UINT64" /\ R = "INT64" -> [left_type |-> "UINT64", right_type |-> "INT64"]
      [] L = "INT64" /\ R = "UINT64" -> [left_type |-> "INT64", right_type |-> "UINT64"]
      [] L = "FLOAT64" \/ R = "FLOAT64" -> [left_type |-> "FLOAT64", right_type |-> "FLOAT64"]
      [] OTHER -> [left_type |-> L, right_type |-> R]

\* The comparison functors (EqualsOperator ... GreaterThanEqualsOperator) on
\* two values already cast by the caller.
comparison_functor(func, a, b) ==
    CASE func = "EQ" -> a = b
      [] func = "NE" -> a # b
      [] func = "LT" -> a < b
      [] func = "LE" -> a <= b
      [] func = "GT" -> a > b
      [] func = "GE" -> a >= b

RECURSIVE StrLess(_, _)
StrLess(s, t) ==
    IF Len(t) = 0 THEN FALSE
    ELSE IF Len(s) = 0 THEN TRUE
    ELSE IF s[1] # t[1] THEN s[1] < t[1]
    ELSE StrLess(Tail(s), Tail(t))

comparison_functor_str(func, s, t) ==
    CASE func = "EQ" -> s = t
      [] func = "NE" -> s # t
      [] func = "LT" -> StrLess(s, t)
      [] func = "LE" -> ~StrLess(t, s)
      [] func = "GT" -> StrLess(t, s)
      [] func = "GE" -> ~StrLess(s, t)

(***************************************************************************)
(* Column::transform into a bitset.  The caller's functor is applied to    *)
(* the stored values in storage order; fvals[k] is its result on the k-th  *)
(* stored value and becomes bit k of the output.  The other bits keep the  *)
(* value the caller's bitset had.                                          *)
(***************************************************************************)
Column_transform(col, output_bits, fvals) ==
    [k \in 1..Len(output_bits) |->
        IF k <= Len(col.vals) THEN fvals[k] ELSE output_bits[k]]

NewBitSet(n) == [k \in 1..n |-> FALSE]

(***************************************************************************)
(* transform_to_placeholder: a mask with no bit set is returned as         *)
(* EmptyResult; everything else is returned as it is.                      *)
(***************************************************************************)
transform_to_placeholder(data) ==
    IF data.kind = "BitSet" /\ (\A k \in 1..Len(data.bits) : ~data.bits[k])
    THEN EmptyResult
    ELSE data

(***************************************************************************)
(* Comparator kernel, Column against Column: the nested visit_type over    *)
(* the two element types (lines 147-170), then the kernel itself.          *)
(***************************************************************************)
\* variant of the visit that compares a bool with a number as two numbers
binary_comparator_visit_type_bool_as_number(l, r, func) ==
    IF is_sequence_type(l.type) /\ is_sequence_type(r.type)
    THEN Error("E_RUNTIME_ERROR", "Cannot compare (possible categorical?)")
    ELSE IF (is_numeric_type(l.type) \/ is_bool_type(l.type))
            /\ (is_numeric_type(r.type) \/ is_bool_type(r.type))
    THEN IF Len(r.vals) < Len(l.vals) THEN Undefined
         ELSE BitSet(Column_transform(l, NewBitSet(row_count(l)),
                 [k \in 1..Len(l.vals) |-> comparison_functor(func, l.vals[k], r.vals[k])]))
    ELSE Error("E_RUNTIME_ERROR", "Cannot compare (possible categorical?)")

binary_comparator_visit_type(l, r, func) ==
    IF is_sequence_type(l.type) /\ is_sequence_type(r.type)
    THEN LET strip_fixed_width_trailing_nulls ==
                 is_fixed_string_type(l.type) \/ is_fixed_string_type(r.type)
         IN  \* the two-column transform walks both columns' stored values together
             IF Len(r.vals) < Len(l.vals) THEN Undefined
             ELSE BitSet(Column_transform(l, NewBitSet(row_count(l)),
                     [k \in 1..Len(l.vals) |->
                         comparison_functor_str(func,
                             string_at_offset(l, l.vals[k], strip_fixed_width_trailing_nulls),
                             string_at_offset(r, r.vals[k], strip_fixed_width_trailing_nulls))]))
    ELSE IF (is_numeric_type(l.type) /\ is_numeric_type(r.type))
            \/ (is_bool_type(l.type) /\ is_bool_type(r.type))
    THEN LET comp == Comparable(l.type, r.type)
         IN  IF Len(r.vals) < Len(l.vals) THEN Undefined
             ELSE BitSet(Column_transform(l, NewBitSet(row_count(l)),
                     [k \in 1..Len(l.vals) |->
                         comparison_functor(func,
                             static_cast(comp.left_type, l.vals[k]),
                             static_cast(comp.right_type, r.vals[k]))]))
    ELSE Error("E_RUNTIME_ERROR", "Cannot compare (possible categorical?)")

\* variant of the kernel that compares the row counts before the empty check
binary_comparator_rows_first(l, r, func) ==
    IF row_count(l) # row_count(r)
    THEN Error("E_ASSERTION_FAILURE", "Columns with different row counts in binary comparator")
    ELSE IF is_empty_type(l.type) \/ is_empty_type(r.type) THEN EmptyResult
    ELSE binary_comparator_visit_type(l, r, func)

binary_comparator(l, r, func) ==
    IF is_empty_type(l.type) \/ is_empty_type(r.type) THEN EmptyResult
    ELSE IF row_count(l) # row_count(r)
    THEN Error("E_ASSERTION_FAILURE", "Columns with different row counts in binary comparator")
    ELSE binary_comparator_visit_type(l, r, func)

(***************************************************************************)
(* Comparator kernel, Column against Value.  arguments_reversed is TRUE    *)
(* when the caller's left operand is the Value.                            *)
(***************************************************************************)
binary_comparator_value(column_with_strings, val, func, arguments_reversed) ==
    IF is_empty_type(column_with_strings.type) THEN EmptyResult
    ELSE IF is_sequence_type(column_with_strings.type) /\ is_sequence_type(val.type)
    THEN LET width == get_fixed_width_string_size(column_with_strings)
             utf32_string == IF width # NoWidth THEN ascii_to_padded_utf32(val.str, width)
                             ELSE NoString
             value_string == IF is_fixed_string_type(column_with_strings.type)
                             THEN (IF utf32_string # NoString THEN utf32_string ELSE << >>)
                             ELSE val.str
             value_offset == get_offset_for_column(value_string, column_with_strings)
         IN  BitSet(Column_transform(column_with_strings,
                 NewBitSet(row_count(column_with_strings)),
                 [k \in 1..Len(column_with_strings.vals) |->
                     LET offset == column_with_strings.vals[k]
                     IN  IF arguments_reversed
                         THEN comparison_functor(func, offset, value_offset)
                         ELSE comparison_functor(func, value_offset, offset)]))
    ELSE IF (is_numeric_type(column_with_strings.type) /\ is_numeric_type(val.type))
            \/ (is_bool_type(column_with_strings.type) /\ is_bool_type(val.type))
    THEN LET comp == IF arguments_reversed
                     THEN Comparable(column_with_strings.type, val.type)
                     ELSE Comparable(val.type, column_with_strings.type)
             value == static_cast(comp.left_type, val.v)
         IN  BitSet(Column_transform(column_with_strings,
                 NewBitSet(row_count(column_with_strings)),
                 [k \in 1..Len(column_with_strings.vals) |->
                     LET input_value == column_with_strings.vals[k]
                     IN  IF arguments_reversed
                         THEN comparison_functor(func, value,
                                  static_cast(comp.right_type, input_value))
                         ELSE comparison_functor(func,
                                  static_cast(comp.right_type, input_value), value)]))
    ELSE Error("E_RUNTIME_ERROR", "Cannot compare (possible categorical?)")

(***************************************************************************)
(* The comparison visitor.                                                 *)
(***************************************************************************)
visit_binary_comparator(l, r, func) ==
    IF l.kind = "EmptyResult" \/ r.kind = "EmptyResult" THEN EmptyResult
    ELSE IF l.kind = "Column" /\ r.kind = "Value"
    THEN transform_to_placeholder(binary_comparator_value(l, r, func, FALSE))
    ELSE IF l.kind = "Column" /\ r.kind = "Column"
    THEN transform_to_placeholder(binary_comparator(l, r, func))
    ELSE IF l.kind = "Value" /\ r.kind = "Column"
    THEN transform_to_placeholder(binary_comparator_value(r, l, func, TRUE))
    ELSE IF l.kind = "Value" /\ r.kind = "Value"
    THEN Error("E_RUNTIME_ERROR", "Two value inputs not accepted to binary comparators")
    ELSE Error("E_RUNTIME_ERROR", "Bitset/ValueSet inputs not accepted to binary comparators")

(***************************************************************************)
(* type_arithmetic_promoted_type<L, R, Func>: the type an arithmetic or    *)
(* membership operation on numeric types L and R is computed in.  Divide   *)
(* always yields a floating type; a floating operand makes the result      *)
(* floating; two unsigned operands stay unsigned unless subtracted; every  *)
(* other pairing is signed.                                                *)
(***************************************************************************)
type_arithmetic_promoted_type(L, R, func) ==
    IF func = "DIV" \/ L = "FLOAT64" \/ R = "FLOAT64" THEN "FLOAT64"
    ELSE IF L = "UINT64" /\ R = "UINT64" /\ func # "SUB" THEN "UINT64"
    ELSE "INT64"

\* func.apply(left_value, right_value) of the arithmetic functors: both values
\* are cast to the promoted type and combined in it.  A quotient is kept as
\* the exact fraction num/den.
arithmetic_apply(func, L, R, left_value, right_value) ==
    LET V == type_arithmetic_promoted_type(L, R, func)
        t == static_cast(V, left_value)
        u == static_cast(V, right_value)
    IN  CASE func = "ADD" -> static_cast(V, t + u)
          [] func = "SUB" -> static_cast(V, t - u)
          [] func = "MUL" -> static_cast(V, t * u)
          [] func = "DIV" -> [num |-> t, den |-> u]

DensePositions(n) == [k \in 1..n |-> k - 1]

(***************************************************************************)
(* Arithmetic kernel, Value with Value.                                    *)
(***************************************************************************)
\* variant of the kernel that examines the left value's type only
binary_operator_values_left_only(l, r, func) ==
    IF ~is_numeric_type(l.type)
    THEN Error("E_RUNTIME_ERROR", "Non-numeric type provided to binary operation")
    ELSE LET TargetType == type_arithmetic_promoted_type(l.type, r.type, func)
         IN  Value(TargetType, arithmetic_apply(func, l.type, r.type, l.v, r.v), << >>)

binary_operator_values(l, r, func) ==
    IF ~is_numeric_type(l.type)
    THEN Error("E_RUNTIME_ERROR", "Non-numeric type provided to binary operation")
    ELSE IF ~is_numeric_type(r.type)
    THEN Error("E_RUNTIME_ERROR", "Non-numeric type provided to binary operation")
    ELSE LET TargetType == type_arithmetic_promoted_type(l.type, r.type, func)
         IN  Value(TargetType, arithmetic_apply(func, l.type, r.type, l.v, r.v), << >>)

(***************************************************************************)
(* Arithmetic kernel, Column with Column: the nested visit_type (lines     *)
(* 293-312), then the kernel.  The output column is allocated with the     *)
(* left column's row count and filled from the stored values.              *)
(***************************************************************************)
binary_operator_visit_type(l, r, func) ==
    IF ~is_numeric_type(l.type)
    THEN Error("E_RUNTIME_ERROR", "Non-numeric type provided to binary operation")
    ELSE IF ~is_numeric_type(r.type)
    THEN Error("E_RUNTIME_ERROR", "Non-numeric type provided to binary operation")
    ELSE LET TargetType == type_arithmetic_promoted_type(l.type, r.type, func)
         IN  IF Len(r.vals) < Len(l.vals) THEN Undefined
             ELSE ColumnWithStrings(TargetType, row_count(l), FALSE, DensePositions(Len(l.vals)),
                     [k \in 1..Len(l.vals) |->
                         arithmetic_apply(func, l.type, r.type, l.vals[k], r.vals[k])])

\* variant of the kernel that examines the element types before the row counts
binary_operator_types_first(l, r, func) ==
    IF is_empty_type(l.type) \/ is_empty_type(r.type)
    THEN Error("E_UNSUPPORTED_COLUMN_TYPE", "Empty column provided to binary operator")
    ELSE IF ~is_numeric_type(l.type) \/ ~is_numeric_type(r.type)
    THEN binary_operator_visit_type(l, r, func)
    ELSE IF row_count(l) # row_count(r)
    THEN Error("E_ASSERTION_FAILURE", "Columns with different row counts in binary operator")
    ELSE binary_operator_visit_type(l, r, func)

binary_operator(l, r, func) ==
    IF is_empty_type(l.type) \/ is_empty_type(r.type)
    THEN Error("E_UNSUPPORTED_COLUMN_TYPE", "Empty column provided to binary operator")
    ELSE IF row_count(l) # row_count(r)
    THEN Error("E_ASSERTION_FAILURE", "Columns with different row counts in binary operator")
    ELSE binary_operator_visit_type(l, r, func)

(***************************************************************************)
(* Arithmetic kernel, Column with Value: the nested visit_type (lines      *)
(* 323-352), then the kernel.  arguments_reversed is TRUE when the         *)
(* caller's left operand is the Value.                                     *)
(***************************************************************************)
\* variant of the visit that ignores arguments_reversed
binary_operator_value_visit_type_unreversed(col, val, func, arguments_reversed) ==
    IF ~is_numeric_type(col.type)
    THEN Error("E_RUNTIME_ERROR", "Non-numeric type provided to binary operation")
    ELSE IF ~is_numeric_type(val.type)
    THEN Error("E_RUNTIME_ERROR", "Non-numeric type provided to binary operation")
    ELSE ColumnWithStrings(type_arithmetic_promoted_type(col.type, val.type, func),
             row_count(col), FALSE, DensePositions(Len(col.vals)),
             [k \in 1..Len(col.vals) |->
                 arithmetic_apply(func, col.type, val.type, col.vals[k], val.v)])

binary_operator_value_visit_type(col, val, func, arguments_reversed) ==
    IF ~is_numeric_type(col.type)
    THEN Error("E_RUNTIME_ERROR", "Non-numeric type provided to binary operation")
    ELSE IF ~is_numeric_type(val.type)
    THEN Error("E_RUNTIME_ERROR", "Non-numeric type provided to binary operation")
    ELSE LET raw_value == val.v
             TargetType == type_arithmetic_promoted_type(col.type, val.type, func)
             ReversedTargetType == type_arithmetic_promoted_type(val.type, col.type, func)
         IN  IF arguments_reversed
             THEN ColumnWithStrings(ReversedTargetType, row_count(col), FALSE,
                      DensePositions(Len(col.vals)),
                      [k \in 1..Len(col.vals) |->
                          arithmetic_apply(func, val.type, col.type, raw_value, col.vals[k])])
             ELSE ColumnWithStrings(TargetType, row_count(col), FALSE,
                      DensePositions(Len(col.vals)),
                      [k \in 1..Len(col.vals) |->
                          arithmetic_apply(func, col.type, val.type, col.vals[k], raw_value)])

binary_operator_value(col, val, func, arguments_reversed) ==
    IF is_empty_type(col.type)
    THEN Error("E_UNSUPPORTED_COLUMN_TYPE", "Empty column provided to binary operator")
    ELSE binary_operator_value_visit_type(col, val, func, arguments_reversed)

(***************************************************************************)
(* The arithmetic visitor.                                                 *)
(***************************************************************************)
\* variant of the visitor that short-circuits on the left operand only
visit_binary_operator_left_only(l, r, func) ==
    IF l.kind = "EmptyResult" THEN EmptyResult
    ELSE IF l.kind = "Column" /\ r.kind = "Value"
    THEN binary_operator_value(l, r, func, FALSE)
    ELSE IF l.kind = "Column" /\ r.kind = "Column"
    THEN binary_operator(l, r, func)
    ELSE IF l.kind = "Value" /\ r.kind = "Column"
    THEN binary_operator_value(r, l, func, TRUE)
    ELSE IF l.kind = "Value" /\ r.kind = "Value"
    THEN binary_operator_values(l, r, func)
    ELSE Error("E_RUNTIME_ERROR", "Bitset/ValueSet inputs not accepted to binary operators")

visit_binary_operator(l, r, func) ==
    IF l.kind = "EmptyResult" \/ r.kind = "EmptyResult" THEN EmptyResult
    ELSE IF l.kind = "Column" /\ r.kind = "Value"
    THEN binary_operator_value(l, r, func, FALSE)
    ELSE IF l.kind = "Column" /\ r.kind = "Column"
    THEN binary_operator(l, r, func)
    ELSE IF l.kind = "Value" /\ r.kind = "Column"
    THEN binary_operator_value(r, l, func, TRUE)
    ELSE IF l.kind = "Value" /\ r.kind = "Value"
    THEN binary_operator_values(l, r, func)
    ELSE Error("E_RUNTIME_ERROR", "Bitset/ValueSet inputs not accepted to binary operators")

(***************************************************************************)
(* Membership kernel.                                                      *)
(***************************************************************************)
empty(value_set) == value_set.nums = {} /\ value_set.strs = {}

get_fixed_width_string_set(value_set, width) ==
    {ascii_to_padded_utf32(str, width) : str \in value_set.strs} \ {NoString}

needs_uint64_special_handling(ColType, SetType) ==
    (ColType = "UINT64" /\ SetType = "INT64") \/ (ColType = "INT64" /\ SetType = "UINT64")

\* IsInOperator / IsNotInOperator on one value and the typed set.
membership_functor(func, v, set) ==
    IF func = "ISIN" THEN v \in set ELSE v \notin set

\* The scatter of lines 108-117: bit pos[k] of `replace` is bit k of the
\* dense output, every other bit is clear.
ScatterBits(col, output_bits) ==
    [j \in 1..row_count(col) |->
        \E k \in 1..Len(col.pos) : col.pos[k] = j - 1 /\ k <= Len(output_bits) /\ output_bits[k]]

\* the nested visit_type of lines 65-102, for a non-empty value set
binary_membership_visit_type(column_with_strings, value_set, func) ==
    LET ColType == column_with_strings.type
        SetType == value_set.type
        n == row_count(column_with_strings)
        stored == 1..Len(column_with_strings.vals)
    IN  IF is_sequence_type(ColType) /\ is_sequence_type(SetType)
        THEN LET width == get_fixed_width_string_size(column_with_strings)
                 has_set == ~is_fixed_string_type(ColType) \/ width # NoWidth
                 typed_value_set ==
                     IF is_fixed_string_type(ColType)
                     THEN get_fixed_width_string_set(value_set, width)
                     ELSE value_set.strs
                 offset_set == get_offsets_for_column(typed_value_set, column_with_strings)
             IN  \* without a width the set pointer stays null and is dereferenced
                 IF ~has_set THEN Undefined
                 ELSE BitSet(Column_transform(column_with_strings, NewBitSet(n),
                         [k \in stored |->
                             membership_functor(func, column_with_strings.vals[k], offset_set)]))
        ELSE IF is_bool_type(ColType) /\ is_bool_type(SetType)
        THEN Error("E_RUNTIME_ERROR", "Binary membership not implemented for bools")
        ELSE IF is_numeric_type(ColType) /\ is_numeric_type(SetType)
        THEN LET WideType == type_arithmetic_promoted_type(ColType, SetType, func)
                 typed_value_set == {static_cast(WideType, x) : x \in value_set.nums}
             IN  BitSet(Column_transform(column_with_strings, NewBitSet(n),
                     [k \in stored |->
                         LET input_value == column_with_strings.vals[k]
                         IN  IF needs_uint64_special_handling(ColType, SetType)
                             THEN membership_functor(func, input_value, value_set.nums)
                             ELSE membership_functor(func,
                                      static_cast(WideType, input_value), typed_value_set)]))
        ELSE Error("E_RUNTIME_ERROR", "Cannot check membership (possible categorical?)")

\* lines 58-121: the output bitset, filled, and returned
binary_membership_output(column_with_strings, value_set, func) ==
    LET n == row_count(column_with_strings)
        filled ==
            IF empty(value_set)
            THEN BitSet([k \in 1..n |-> func = "ISNOTIN"])
            ELSE binary_membership_visit_type(column_with_strings, value_set, func)
        \* lines 108-117 build `replace` for a sparse column ...
        replace == IF filled.kind = "BitSet" /\ is_sparse(column_with_strings)
                   THEN ScatterBits(column_with_strings, filled.bits)
                   ELSE << >>
    IN  \* ... and line 121 returns output_bitset
        filled

\* variant of the kernel that answers EmptyResult for either operator
binary_membership_always_empty(column_with_strings, value_set, func) ==
    IF is_empty_type(column_with_strings.type)
    THEN EmptyResult
    ELSE binary_membership_output(column_with_strings, value_set, func)

\* variant of the kernel that visits the element types before the empty-set test
binary_membership_types_first(column_with_strings, value_set, func) ==
    IF is_empty_type(column_with_strings.type)
    THEN CASE func = "ISIN" -> EmptyResult
           [] func = "ISNOTIN" -> FullResult
           [] OTHER -> Error("E_ASSERTION_FAILURE", "Unexpected operator passed to binary_membership")
    ELSE LET visited == binary_membership_visit_type(column_with_strings, value_set, func)
         IN  IF empty(value_set) /\ visited.kind = "BitSet"
             THEN BitSet([k \in 1..row_count(column_with_strings) |-> func = "ISNOTIN"])
             ELSE visited

binary_membership(column_with_strings, value_set, func) ==
    IF is_empty_type(column_with_strings.type)
    THEN CASE func = "ISIN" -> EmptyResult
           [] func = "ISNOTIN" -> FullResult
           [] OTHER -> Error("E_ASSERTION_FAILURE", "Unexpected operator passed to binary_membership")
    ELSE binary_membership_output(column_with_strings, value_set, func)

(***************************************************************************)
(* The membership visitor.                                                 *)
(***************************************************************************)
\* variant of the visitor that answers EmptyResult for a bad operand pairing
visit_binary_membership_swallows(l, r, func) ==
    IF l.kind = "EmptyResult" THEN EmptyResult
    ELSE IF l.kind = "Column" /\ r.kind = "ValueSet"
    THEN transform_to_placeholder(binary_membership(l, r, func))
    ELSE EmptyResult

visit_binary_membership(l, r, func) ==
    IF l.kind = "EmptyResult" THEN EmptyResult
    ELSE IF l.kind = "Column" /\ r.kind = "ValueSet"
    THEN transform_to_placeholder(binary_membership(l, r, func))
    ELSE Error("E_RUNTIME_ERROR", "Binary membership operations must be Column/ValueSet")

(***************************************************************************)
(* Sentinel boolean algebra: the six binary_boolean overloads, and the     *)
(* visitor, which mirrors an overload by swapping its arguments.           *)
(***************************************************************************)
boolean_functor(op, a, b) ==
    CASE op = "AND" -> a /\ b
      [] op = "OR" -> a \/ b
      [] op = "XOR" -> a # b

BitAt(bits, k) == k <= Len(bits) /\ bits[k]

MaxLen(a, b) == IF Len(a) >= Len(b) THEN Len(a) ELSE Len(b)

binary_boolean(l, r, op) ==
    CASE l.kind = "BitSet" /\ r.kind = "BitSet" ->
             BitSet([k \in 1..MaxLen(l.bits, r.bits) |->
                        boolean_functor(op, BitAt(l.bits, k), BitAt(r.bits, k))])
      [] l.kind = "BitSet" /\ r.kind = "EmptyResult" ->
             IF op = "AND" THEN EmptyResult ELSE l
      [] l.kind = "BitSet" /\ r.kind = "FullResult" ->
             IF op = "AND" THEN l
             ELSE IF op = "OR" THEN FullResult
             ELSE BitSet([k \in 1..Len(l.bits) |-> ~l.bits[k]])
      [] l.kind = "EmptyResult" /\ r.kind = "FullResult" ->
             IF op = "AND" THEN EmptyResult ELSE FullResult
      [] l.kind = "FullResult" /\ r.kind = "FullResult" ->
             IF op = "XOR" THEN EmptyResult ELSE FullResult
      [] l.kind = "EmptyResult" /\ r.kind = "EmptyResult" -> EmptyResult

BooleanKinds == {"BitSet", "EmptyResult", "FullResult"}

HasOverload(l, r) ==
    \/ l.kind = "BitSet" /\ r.kind \in BooleanKinds
    \/ l.kind = "EmptyResult" /\ r.kind \in {"EmptyResult", "FullResult"}
    \/ l.kind = "FullResult" /\ r.kind = "FullResult"

\* variant of the visitor that does not mirror an overload
visit_binary_boolean_unmirrored(l, r, op) ==
    IF l.kind \notin BooleanKinds \/ r.kind \notin BooleanKinds
    THEN Error("E_RUNTIME_ERROR", "Invalid input types to binary boolean operation")
    ELSE IF HasOverload(l, r) THEN binary_boolean(l, r, op)
    ELSE Error("E_RUNTIME_ERROR", "Invalid input types to binary boolean operation")

visit_binary_boolean(l, r, op) ==
    IF l.kind \notin BooleanKinds \/ r.kind \notin BooleanKinds
    THEN Error("E_RUNTIME_ERROR", "Invalid input types to binary boolean operation")
    ELSE IF HasOverload(l, r) THEN binary_boolean(l, r, op)
    ELSE binary_boolean(r, l, op)

(***************************************************************************)
(* The front door.                                                         *)
(***************************************************************************)
dispatch_binary(l, r, op) ==
    CASE op \in ArithmeticOps -> visit_binary_operator(l, r, op)
      [] op \in ComparisonOps -> visit_binary_comparator(l, r, op)
      [] op \in MembershipOps -> visit_binary_membership(l, r, op)
      [] op \in BooleanOps -> visit_binary_boolean(l, r, op)
      [] OTHER -> Error("E_RUNTIME_ERROR", "Unknown operation")

(***************************************************************************)
(* The operands a call is made with.  Every non-empty element type has two *)
(* values, chosen so that the signed and unsigned ranges do not overlap    *)
(* entirely (a negative INT64, a UINT64 above the signed maximum).         *)
(***************************************************************************)
TypeValues(t) ==
    CASE t = "UINT64" -> {1, UMax}
      [] t = "INT64" -> {0 - 1, 1}
      [] t = "FLOAT64" -> {1, 2}
      [] t = "BOOL8" -> {0, 1}
      [] t = "UTF_DYNAMIC64" -> {1, 2}
      [] t = "UTF_FIXED64" -> {3, 4}
      [] OTHER -> {}

StoredTypes == DataTypes \ {"EMPTYVAL"}

IsIncreasing(p) == \A i \in 1..Len(p) : \A j \in 1..Len(p) : i < j => p[i] < p[j]

\* the stored positions of a sparse column of n rows: at least one row absent
SparsePositions(n) ==
    {p \in UNION {[1..m -> 0..(n - 1)] : m \in 0..(n - 1)} : IsIncreasing(p)}

DenseColumns ==
    UNION {UNION {{ColumnWithStrings(t, n, FALSE, DensePositions(n), vals) :
                      vals \in [1..n -> TypeValues(t)]} : n \in 0..MaxRows} : t \in StoredTypes}

SparseColumns ==
    UNION {UNION {UNION {{ColumnWithStrings(t, n, TRUE, p, vals) :
                             vals \in [1..Len(p) -> TypeValues(t)]} : p \in SparsePositions(n)} :
                      n \in 1..MaxRows} : t \in StoredTypes}

EmptyColumns == {ColumnWithStrings("EMPTYVAL", n, FALSE, << >>, << >>) : n \in 0..MaxRows}

Columns == DenseColumns \cup SparseColumns \cup EmptyColumns

\* scalar strings: one held by the pool, one absent from it, one longer than
\* the fixed width
ScalarStrings == {<<1>>, <<3>>, <<1, 2, 3>>}

Values ==
    UNION {{Value(t, v, << >>) : v \in TypeValues(t)} : t \in {"UINT64", "INT64", "FLOAT64", "BOOL8"}}
    \cup {Value("UTF_DYNAMIC64", 0, str) : str \in ScalarStrings}
    \cup {Value("EMPTYVAL", 0, << >>)}

ValueSets ==
    UNION {{ValueSet(t, nums, {}) : nums \in SUBSET TypeValues(t)} :
              t \in {"UINT64", "INT64", "FLOAT64", "BOOL8"}}
    \cup {ValueSet("UTF_DYNAMIC64", {}, strs) : strs \in SUBSET {<<1>>, <<3>>}}

BitSets == UNION {{BitSet(bits) : bits \in [1..n -> BOOLEAN]} : n \in 0..MaxRows}

Sentinels == {EmptyResult, FullResult}

\* one operand of each kind, for the pairings a family rejects
OneColumn == ColumnWithStrings("INT64", 1, FALSE, <<0>>, <<1>>)

OneValue == Value("INT64", 1, << >>)

OneValueSet == ValueSet("INT64", {1}, {})

OneBitSet == BitSet(<<TRUE>>)

LeftOperands(op) ==
    CASE op \in ArithmeticOps ->
             DenseColumns \cup EmptyColumns \cup Values \cup Sentinels \cup {OneValueSet, OneBitSet}
      [] op \in ComparisonOps ->
             Columns \cup Values \cup Sentinels \cup {OneValueSet, OneBitSet}
      [] op \in MembershipOps ->
             Columns \cup Sentinels \cup {OneValue, OneValueSet, OneBitSet}
      [] op \in BooleanOps ->
             BitSets \cup Sentinels \cup {OneColumn, OneValue, OneValueSet}

RightOperands(op) ==
    CASE op \in MembershipOps ->
             ValueSets \cup Sentinels \cup {OneColumn, OneValue, OneBitSet}
      [] OTHER -> LeftOperands(op)

OperationTypes == ArithmeticOps \cup ComparisonOps \cup MembershipOps \cup BooleanOps

(***************************************************************************)
(* The state machine: a call is set up (Init) and dispatch_binary runs it. *)
(* One action per operation family, as the switch in dispatch_binary has   *)
(* one group of cases per family.                                          *)
(***************************************************************************)
Init ==
    /\ operation \in OperationTypes
    /\ left \in LeftOperands(operation)
    /\ right \in RightOperands(operation)
    /\ result = NoCall
    /\ pc = "call"
    /\ calls = << >>
    /\ string_pool = StringPool

DispatchArithmetic ==
    /\ pc = "call"
    /\ operation \in ArithmeticOps
    /\ result' = dispatch_binary(left, right, operation)
    /\ pc' = "done"
    /\ UNCHANGED <<left, right, operation, calls, string_pool>>

DispatchComparison ==
    /\ pc = "call"
    /\ operation \in ComparisonOps
    /\ result' = dispatch_binary(left, right, operation)
    /\ pc' = "done"
    /\ UNCHANGED <<left, right, operation, calls, string_pool>>

DispatchMembership ==
    /\ pc = "call"
    /\ operation \in MembershipOps
    /\ result' = dispatch_binary(left, right, operation)
    /\ pc' = "done"
    /\ UNCHANGED <<left, right, operation, calls, string_pool>>

DispatchBoolean ==
    /\ pc = "call"
    /\ operation \in BooleanOps
    /\ result' = dispatch_binary(left, right, operation)
    /\ pc' = "done"
    /\ UNCHANGED <<left, right, operation, calls, string_pool>>

Next ==
    \/ DispatchArithmetic
    \/ DispatchComparison
    \/ DispatchMembership
    \/ DispatchBoolean

Spec == Init /\ [][Next]_vars

(***************************************************************************)
(* Independent workers.  Each worker makes one dispatch_binary call on     *)
(* operands of its own; the workers share the string pool only.  A call    *)
(* is two steps that other workers' steps may come between: the kernel     *)
(* resolves strings through the pool (get_offset_for_column,               *)
(* get_offsets_for_column, string_at_offset), then fills its output and    *)
(* returns it.                                                             *)
(***************************************************************************)
NumWorkers == 2

Workers == 1..NumWorkers

Call(l, r, op) == [left |-> l, right |-> r, operation |-> op, result |-> NoCall,
                   pool_seen |-> << >>, pc |-> "call"]

DynamicColumn == ColumnWithStrings("UTF_DYNAMIC64", 2, FALSE, <<0, 1>>, <<1, 2>>)

FixedColumn == ColumnWithStrings("UTF_FIXED64", 2, FALSE, <<0, 1>>, <<4, 3>>)

\* calls that read the pool, calls that do not, and calls that fail
WorkerCalls ==
    { Call(DynamicColumn, Value("UTF_DYNAMIC64", 0, <<1>>), "EQ"),
      Call(Value("UTF_DYNAMIC64", 0, <<3>>), DynamicColumn, "NE"),
      Call(FixedColumn, DynamicColumn, "LT"),
      Call(DynamicColumn, ValueSet("UTF_DYNAMIC64", {}, {<<1>>}), "ISIN"),
      Call(FixedColumn, ValueSet("UTF_DYNAMIC64", {}, {<<1>>, <<3>>}), "ISNOTIN"),
      Call(OneColumn, Value("UINT64", UMax, << >>), "ADD"),
      Call(OneColumn, Value("BOOL8", 1, << >>), "GT"),
      Call(DynamicColumn, OneValueSet, "ISIN"),
      Call(OneBitSet, FullResult, "AND") }

\* the strings a call looks up in the pool
LookedUp(call) ==
    (IF call.left.kind = "Value" /\ is_sequence_type(call.left.type)
     THEN {call.left.str} ELSE {})
    \cup (IF call.right.kind = "Value" /\ is_sequence_type(call.right.type)
          THEN {call.right.str} ELSE {})
    \cup (IF call.right.kind = "ValueSet" THEN call.right.strs ELSE {})

RECURSIVE AppendAll(_, _)
AppendAll(pool, strs) ==
    IF strs = {} THEN pool
    ELSE LET str == CHOOSE x \in strs : TRUE
         IN  AppendAll(Append(pool, str), strs \ {str})

\* variant of the lookup that adds the strings it does not find
string_pool_lookup_interning(pool, strs) ==
    AppendAll(pool, {str \in strs : \A o \in 1..Len(pool) : pool[o] # str})

\* the pool after a kernel has looked strings up in it: lookups only read
string_pool_lookup(pool, strs) == pool

WorkersInit ==
    /\ calls \in [Workers -> WorkerCalls]
    /\ string_pool = StringPool
    /\ left = NoCall
    /\ right = NoCall
    /\ operation = "NONE"
    /\ result = NoCall
    /\ pc = "workers"

WorkerResolve(w) ==
    /\ calls[w].pc = "call"
    /\ calls' = [calls EXCEPT ![w].pool_seen = string_pool, ![w].pc = "resolved"]
    /\ string_pool' = string_pool_lookup(string_pool, LookedUp(calls[w]))
    /\ UNCHANGED <<left, right, operation, result, pc>>

\* The kernels are defined over the pool content StringPool; of a call that
\* saw any other content nothing is known.
WorkerReturn(w) ==
    /\ calls[w].pc = "resolved"
    /\ calls' = [calls EXCEPT
                    ![w].result =
                        IF calls[w].pool_seen = StringPool /\ string_pool = StringPool
                        THEN dispatch_binary(calls[w].left, calls[w].right, calls[w].operation)
                        ELSE Undefined,
                    ![w].pc = "done"]
    /\ UNCHANGED <<left, right, operation, result, pc, string_pool>>

WorkersNext ==
    \/ \E w \in Workers : WorkerResolve(w)
    \/ \E w \in Workers : WorkerReturn(w)

WorkersSpec == WorkersInit /\ [][WorkersNext]_vars

(***************************************************************************)
(* Vocabulary of the properties.                                           *)
(***************************************************************************)
Done == pc = "done"

OperandKinds == {"Column", "Value"}

\* the operand-kind pairings each family accepts (spec 4.1, 4.3, 4.4, 4.5)
ValidPairing(lk, rk, op) ==
    CASE op \in ArithmeticOps -> lk \in OperandKinds /\ rk \in OperandKinds
      [] op \in ComparisonOps ->
             lk \in OperandKinds /\ rk \in OperandKinds /\ ~(lk = "Value" /\ rk = "Value")
      [] op \in MembershipOps -> lk = "Column" /\ rk = "ValueSet"
      [] op \in BooleanOps -> lk \in BooleanKinds /\ rk \in BooleanKinds

PairingRejections ==
    {"Two value inputs not accepted to binary comparators",
     "Bitset/ValueSet inputs not accepted to binary comparators",
     "Bitset/ValueSet inputs not accepted to binary operators",
     "Binary membership operations must be Column/ValueSet",
     "Invalid input types to binary boolean operation"}

IsPairingRejection(r) == r.kind = "Error" /\ r.msg \in PairingRejections

\* the pairings the front door is said to reject "in particular"
ListedInvalid ==
    \/ operation \in ArithmeticOps /\ left.kind = "BitSet" /\ right.kind = "BitSet"
    \/ operation \in ComparisonOps
         /\ (left.kind \in {"ValueSet", "BitSet"} \/ right.kind \in {"ValueSet", "BitSet"})
    \/ operation \in ComparisonOps /\ left.kind = "Value" /\ right.kind = "Value"
    \/ operation \in MembershipOps /\ ~(left.kind = "Column" /\ right.kind = "ValueSet")

\* an EmptyResult operand that ends the call before the operands are matched
ShortCircuits ==
    \/ operation \in (ArithmeticOps \cup ComparisonOps)
         /\ (left.kind = "EmptyResult" \/ right.kind = "EmptyResult")
    \/ operation \in MembershipOps /\ left.kind = "EmptyResult"

Outcomes == {"Column", "Value", "BitSet", "EmptyResult", "FullResult", "Error", "Undefined"}

HasSentinel == left.kind \in {"EmptyResult", "FullResult"} \/ right.kind \in {"EmptyResult", "FullResult"}

IsColumn(x) == x.kind = "Column"

IsValue(x) == x.kind = "Value"

BothColumnOrValue == left.kind \in OperandKinds /\ right.kind \in OperandKinds

ColumnColumn == IsColumn(left) /\ IsColumn(right)

ValueValue == IsValue(left) /\ IsValue(right)

DenseOperand(x) == IsColumn(x) => ~is_sparse(x)

EmptyTypedColumn(x) == IsColumn(x) /\ is_empty_type(x.type)

\* the value operand x contributes to row i (a scalar contributes itself)
RowValue(x, i) == IF IsColumn(x) THEN x.vals[i] ELSE x.v

\* the row count of the call's column operand(s)
CallRows == IF IsColumn(left) THEN row_count(left) ELSE row_count(right)

\* a filter result read as a mask of n rows
IsMask(r) == r.kind \in {"BitSet", "EmptyResult", "FullResult"}

MaskOf(r, n) ==
    IF r.kind = "BitSet" THEN r.bits ELSE [k \in 1..n |-> r.kind = "FullResult"]

NumericOrBoolPair ==
    \/ is_numeric_type(left.type) /\ is_numeric_type(right.type)
    \/ is_bool_type(left.type) /\ is_bool_type(right.type)

(***************************************************************************)
(* C3: for every comparison operator and the shapes Column/Column (equal   *)
(* row counts), Column/Scalar and Scalar/Column over numeric or boolean    *)
(* element types, bit i of the result is (left value at row i) op (right   *)
(* value at row i) in the caller's operand order; eq and ne give the same  *)
(* mask with the operands swapped, and a < b gives the mask of b > a.      *)
(* Stated for columns that store every row.                                *)
(***************************************************************************)
C3_ComparatorFollowsOperandOrder ==
    (/\ Done
     /\ operation \in ComparisonOps
     /\ BothColumnOrValue /\ ~ValueValue
     /\ DenseOperand(left) /\ DenseOperand(right)
     /\ NumericOrBoolPair
     /\ ColumnColumn => row_count(left) = row_count(right))
    =>
        /\ IsMask(result)
        /\ MaskOf(result, CallRows) =
               [i \in 1..CallRows |->
                   comparison_functor(operation, RowValue(left, i), RowValue(right, i))]
        /\ operation \in {"EQ", "NE"} => dispatch_binary(right, left, operation) = result
        /\ operation = "LT" => dispatch_binary(right, left, "GT") = result

(***************************************************************************)
(* C4: the membership kernel on a column of the empty element type returns *)
(* EmptyResult for is-in and FullResult for is-not-in, whatever the value  *)
(* set holds, and so does the call made through dispatch_binary.           *)
(***************************************************************************)
C4_EmptyTypedColumnMembershipIsVacuous ==
    (/\ Done
     /\ operation \in MembershipOps
     /\ EmptyTypedColumn(left)
     /\ right.kind = "ValueSet")
    =>
        LET expected == IF operation = "ISIN" THEN EmptyResult ELSE FullResult
        IN  /\ binary_membership(left, right, operation) = expected
            /\ result = expected

C4_Witness ==
    /\ Done
    /\ operation = "ISNOTIN"
    /\ EmptyTypedColumn(left)
    /\ right.kind = "ValueSet"
    /\ right.nums # {}
    /\ result = FullResult

(***************************************************************************)
(* C5 as stated: the comparator returns EmptyResult whenever either        *)
(* operand's declared element type is the empty type, in the shapes        *)
(* Column/Column, Column/Scalar and Scalar/Column.                         *)
(***************************************************************************)
C5_EitherEmptyTypedOperandGivesEmptyResult ==
    (/\ Done
     /\ operation \in ComparisonOps
     /\ BothColumnOrValue /\ ~ValueValue
     /\ is_empty_type(left.type) \/ is_empty_type(right.type))
    => result = EmptyResult

(***************************************************************************)
(* C5 as amended: the comparator returns EmptyResult whenever a Column     *)
(* operand's declared element type is the empty type, in the shapes        *)
(* Column/Column, Column/Scalar and Scalar/Column, for every operator,     *)
(* before the row counts and the element types are compared.               *)
(***************************************************************************)
C5_EmptyTypedColumnGivesEmptyResult ==
    (/\ Done
     /\ operation \in ComparisonOps
     /\ BothColumnOrValue /\ ~ValueValue
     /\ EmptyTypedColumn(left) \/ EmptyTypedColumn(right))
    => result = EmptyResult

C5_Witness ==
    /\ Done
    /\ operation \in ComparisonOps
    /\ ColumnColumn
    /\ is_sequence_type(left.type)
    /\ EmptyTypedColumn(right)
    /\ row_count(left) # row_count(right)
    /\ result = EmptyResult

(***************************************************************************)
(* C6: a Column/Column comparison or arithmetic call on two columns of     *)
(* non-empty element type whose row counts differ fails with the           *)
(* row-count assertion, whatever the element types and the operator.       *)
(***************************************************************************)
C6_RowCountMismatchIsFatal ==
    (/\ Done
     /\ operation \in (ArithmeticOps \cup ComparisonOps)
     /\ ColumnColumn
     /\ ~is_empty_type(left.type) /\ ~is_empty_type(right.type)
     /\ row_count(left) # row_count(right))
    =>
        /\ result.kind = "Error"
        /\ result.code = "E_ASSERTION_FAILURE"
        /\ result.msg \in {"Columns with different row counts in binary comparator",
                           "Columns with different row counts in binary operator"}

C6_Witness ==
    /\ Done
    /\ operation \in ArithmeticOps
    /\ ColumnColumn
    /\ is_bool_type(left.type) /\ is_sequence_type(right.type)
    /\ row_count(left) # row_count(right)
    /\ result.kind = "Error"
    /\ result.code = "E_ASSERTION_FAILURE"

IsTypeError(r) ==
    /\ r.kind = "Error"
    /\ \/ r.code = "E_UNSUPPORTED_COLUMN_TYPE" /\ r.msg = "Empty column provided to binary operator"
       \/ r.code = "E_RUNTIME_ERROR" /\ r.msg = "Non-numeric type provided to binary operation"

BadArithmeticType ==
    /\ Done
    /\ operation \in ArithmeticOps
    /\ BothColumnOrValue
    /\ ~is_numeric_type(left.type) \/ ~is_numeric_type(right.type)

RowCountsChecked ==
    /\ ColumnColumn
    /\ ~is_empty_type(left.type) /\ ~is_empty_type(right.type)
    /\ row_count(left) # row_count(right)

(***************************************************************************)
(* C8 as stated: arithmetic on an empty-typed column, or with a            *)
(* non-numeric element type (bool, string, empty) on either side of any    *)
(* operand shape, is rejected with a type error and returns no column or   *)
(* scalar.                                                                 *)
(***************************************************************************)
C8_BadElementTypeIsTypeError ==
    BadArithmeticType => IsTypeError(result)

(***************************************************************************)
(* C8 as amended: arithmetic on an empty-typed column, or with a           *)
(* non-numeric element type on either side of any operand shape, returns   *)
(* no column or scalar: it is rejected with a type error, except that two  *)
(* columns of non-empty element type and differing row counts are rejected *)
(* with the row-count assertion, which is checked before the element       *)
(* types; an empty-typed column is always reported as such.                *)
(***************************************************************************)
C8_BadElementTypeIsRejected ==
    BadArithmeticType =>
        /\ result.kind = "Error"
        /\ IF RowCountsChecked
           THEN result.code = "E_ASSERTION_FAILURE"
           ELSE IsTypeError(result)
        /\ EmptyTypedColumn(left) \/ EmptyTypedColumn(right)
               => result.code = "E_UNSUPPORTED_COLUMN_TYPE"

C8_Witness ==
    /\ Done
    /\ operation \in ArithmeticOps
    /\ ValueValue
    /\ is_numeric_type(left.type)
    /\ is_bool_type(right.type)
    /\ result = Error("E_RUNTIME_ERROR", "Non-numeric type provided to binary operation")

\* a membership call on a column of non-empty element type
MembershipCall ==
    /\ Done
    /\ operation \in MembershipOps
    /\ IsColumn(left)
    /\ ~is_empty_type(left.type)
    /\ right.kind = "ValueSet"

(***************************************************************************)
(* C9: for a column of non-empty element type and an empty value set the   *)
(* membership kernel returns a materialized mask with one bit per row of   *)
(* the column, all false for is-in and all true for is-not-in, whatever    *)
(* the element types of the column and of the set; it raises no type       *)
(* error and returns neither EmptyResult nor FullResult.                   *)
(***************************************************************************)
C9_EmptySetGivesMaterializedMask ==
    (MembershipCall /\ empty(right))
    =>
        LET mask == [k \in 1..row_count(left) |-> operation = "ISNOTIN"]
        IN  /\ binary_membership(left, right, operation) = BitSet(mask)
            /\ IsMask(result)
            /\ MaskOf(result, row_count(left)) = mask

C9_Witness ==
    /\ MembershipCall
    /\ empty(right)
    /\ operation = "ISNOTIN"
    /\ left.type = "UTF_DYNAMIC64"
    /\ right.type = "INT64"
    /\ row_count(left) = 2
    /\ binary_membership(left, right, operation) = BitSet(<<TRUE, TRUE>>)
    /\ result = BitSet(<<TRUE, TRUE>>)

(***************************************************************************)
(* C10: for a column of non-empty element type and a value set of a        *)
(* compatible type, the is-in mask and the is-not-in mask differ at every  *)
(* row of the column that stores a value.                                  *)
(***************************************************************************)
C10_MembershipMasksComplementOnStoredRows ==
    LET isin == binary_membership(left, right, "ISIN")
        isnotin == binary_membership(left, right, "ISNOTIN")
    IN  (/\ MembershipCall
         /\ isin.kind = "BitSet"
         /\ isnotin.kind = "BitSet")
        =>
            \A k \in 1..Len(left.pos) :
                isin.bits[left.pos[k] + 1] # isnotin.bits[left.pos[k] + 1]

\* a boolean call, and the number of rows its operands are read at
BooleanCall == Done /\ operation \in BooleanOps

BooleanOperands == left.kind \in BooleanKinds /\ right.kind \in BooleanKinds

BothSentinels == left \in Sentinels /\ right \in Sentinels

BooleanRows ==
    IF left.kind = "BitSet" THEN Len(left.bits)
    ELSE IF right.kind = "BitSet" THEN Len(right.bits)
    ELSE 1

SameLengthMasks ==
    (left.kind = "BitSet" /\ right.kind = "BitSet") => Len(left.bits) = Len(right.bits)

(***************************************************************************)
(* C11: a boolean call over operands drawn from masks, EmptyResult and     *)
(* FullResult gives, for AND, OR and XOR, the result of reading            *)
(* EmptyResult as the all-false mask and FullResult as the all-true mask;  *)
(* swapping the operands gives the same result; two sentinels give a       *)
(* sentinel; any other operand kind is rejected.  Two masks are taken to   *)
(* have the same length.                                                   *)
(***************************************************************************)
C11_SentinelBooleanAlgebra ==
    BooleanCall =>
        IF BooleanOperands
        THEN SameLengthMasks =>
                 /\ IsMask(result)
                 /\ MaskOf(result, BooleanRows) =
                        [k \in 1..BooleanRows |->
                            boolean_functor(operation,
                                            MaskOf(left, BooleanRows)[k],
                                            MaskOf(right, BooleanRows)[k])]
                 /\ dispatch_binary(right, left, operation) = result
                 /\ BothSentinels => result \in Sentinels
        ELSE /\ result.kind = "Error"
             /\ dispatch_binary(right, left, operation).kind = "Error"

C11_Witness ==
    /\ BooleanCall
    /\ operation = "XOR"
    /\ left = FullResult
    /\ right = BitSet(<<TRUE, FALSE>>)
    /\ result = BitSet(<<FALSE, TRUE>>)

\* element types the comparator does not compare: a number with a string, and
\* a bool with anything that is not a bool
ComparatorIncompatible(a, b) ==
    \/ is_numeric_type(a) /\ is_sequence_type(b)
    \/ is_sequence_type(a) /\ is_numeric_type(b)
    \/ is_bool_type(a) /\ ~is_bool_type(b)
    \/ ~is_bool_type(a) /\ is_bool_type(b)

\* column and set element types the membership kernel does not test: a bool
\* column against any set, and a number against strings
MembershipIncompatible(c, set) ==
    \/ is_bool_type(c)
    \/ is_numeric_type(c) /\ is_sequence_type(set)
    \/ is_sequence_type(c) /\ is_numeric_type(set)

IncompatibleComparison ==
    /\ Done
    /\ operation \in ComparisonOps
    /\ BothColumnOrValue /\ ~ValueValue
    /\ ComparatorIncompatible(left.type, right.type)

IncompatibleMembership ==
    /\ Done
    /\ operation \in MembershipOps
    /\ IsColumn(left)
    /\ right.kind = "ValueSet"
    /\ ~empty(right)
    /\ MembershipIncompatible(left.type, right.type)

(***************************************************************************)
(* C12 as stated: incompatible element types are rejected with an error    *)
(* and never give a mask: in the comparator a number against a string and  *)
(* a bool against a non-bool (Column/Column, Column/Scalar, Scalar/Column);*)
(* in membership with a non-empty set a bool column against any set and a  *)
(* number against strings.                                                 *)
(***************************************************************************)
C12_IncompatibleTypesAlwaysRejected ==
    /\ IncompatibleComparison => result.kind = "Error"
    /\ IncompatibleMembership => result.kind = "Error"

(***************************************************************************)
(* C12 as amended: the same rejections, for calls in which no Column       *)
(* operand has the empty element type; a comparison with an empty-typed    *)
(* column returns EmptyResult before the element types are compared, so a  *)
(* bool against an empty-typed column is not rejected.                     *)
(***************************************************************************)
C12_IncompatibleTypesRejectedUnlessEmptyColumn ==
    /\ IncompatibleComparison =>
           IF EmptyTypedColumn(left) \/ EmptyTypedColumn(right)
           THEN result = EmptyResult
           ELSE result.kind = "Error"
    /\ IncompatibleMembership => result.kind = "Error"

C12_Witness ==
    /\ IncompatibleComparison
    /\ ColumnColumn
    /\ is_bool_type(left.type)
    /\ right.type = "INT64"
    /\ row_count(left) = row_count(right)
    /\ row_count(left) > 0
    /\ result = Error("E_RUNTIME_ERROR", "Cannot compare (possible categorical?)")

AllWorkersDone == \A w \in Workers : calls[w].pc = "done"

ResultWhenAlone(call) == dispatch_binary(call.left, call.right, call.operation)

SparseColumnCall ==
    /\ Done
    /\ \/ operation \in ComparisonOps /\ IsColumn(left) /\ IsValue(right) /\ is_sparse(left)
       \/ operation \in ComparisonOps /\ IsValue(left) /\ IsColumn(right) /\ is_sparse(right)
       \/ operation \in MembershipOps /\ IsColumn(left) /\ right.kind = "ValueSet"
              /\ is_sparse(left)

\* the column with the same stored values and no absent row
StoredValuesOf(col) ==
    ColumnWithStrings(col.type, Len(col.vals), FALSE, DensePositions(Len(col.vals)), col.vals)

\* what the kernel of the call returns for column l and r in place of the
\* call's operands
KernelResult(l, r) ==
    IF operation \in MembershipOps THEN binary_membership(l, r, operation)
    ELSE IF IsColumn(l) THEN binary_comparator_value(l, r, operation, FALSE)
    ELSE binary_comparator_value(r, l, operation, TRUE)

(***************************************************************************)
(* C14: for a sparse column with stored positions p_0 < p_1 < ... and      *)
(* per-stored-value result r, the mask the comparator and the membership   *)
(* kernel return has one bit per logical row, bit p_k equal to r[k] for    *)
(* every stored position and false at every unstored position, for every   *)
(* operator.                                                               *)
(***************************************************************************)
C14_SparseResultIsScatteredBack ==
    SparseColumnCall =>
        LET col == IF IsColumn(left) THEN left ELSE right
            returned == KernelResult(left, right)
            r == IF IsColumn(left) THEN KernelResult(StoredValuesOf(left), right)
                 ELSE KernelResult(left, StoredValuesOf(right))
        IN  (returned.kind = "BitSet" /\ r.kind = "BitSet") =>
                /\ Len(returned.bits) = row_count(col)
                /\ returned.bits = ScatterBits(col, r.bits)

====
